---- MODULE Spec2Model ----
(***************************************************************************)
(* hanko-client: the local-storage State classes (WebAuthnState,           *)
(* PasscodeState, PasswordState) and the API clients that use them         *)
(* (PasscodeClient, WebauthnClient), as a state machine.                   *)
(*                                                                         *)
(* One JavaScript execution context: handlers run to completion, so every  *)
(* action is one synchronous call or one promise-chain segment between two *)
(* suspension points (a network round trip or the platform ceremony).      *)
(*                                                                         *)
(* Spec       the clients, as index.ts exports them, used one operation    *)
(*            at a time                                                    *)
(* SpecStore  the State classes called directly                            *)
(* SpecTampered    the clients, with a storage item that something else    *)
(*                 removes or overwrites                                   *)
(* SpecUnwritable  the clients, with a storage that can refuse writes      *)
(***************************************************************************)
EXTENDS Integers, Sequences, FiniteSets, TLC

\* ------------------------------------------------------------------------
\* Bounds and input domains
\* ------------------------------------------------------------------------
MaxTime == 1        \* the clock runs over 0..MaxTime seconds
MaxSeconds == 1     \* durations (ttl, retry-after) are drawn from 1..MaxSeconds
MaxCreds == 2       \* longest stored list of credential IDs
MaxOps == 2         \* steps of one run that call a Store mutator

Users == {"u1", "u2"}
PasscodeIDs == {"p1", "p2"}
CredentialIDs == {"c1", "c2"}
Seconds == 1..MaxSeconds
\* HTTP statuses a response may carry: two successes, every status some
\* client singles out, and one it does not.
SuccessStatuses == {200, 201}
FailureStatuses == {400, 401, 404, 409, 410, 429, 500}

VARIABLES
  blob,              \* the localStorage item under key "hanko"
  initialUserState,  \* the module-level default user object (shared, mutable)
  now,               \* Math.floor(Date.now() / 1000)
  storageWritable,   \* FALSE while localStorage.setItem throws
  flight,            \* client operations waiting at a suspension point
  writes,            \* steps so far that called a Store mutator
  last,              \* the most recent step and what its caller observed
  cookie,            \* the value of the cookie "hanko" ("" when not set)
  tabs               \* browsing contexts in the middle of a Store mutator

vars ==
  <<blob, initialUserState, now, storageWritable, flight, writes, last,
    cookie, tabs>>

\* ------------------------------------------------------------------------
\* State.ts: the persisted blob
\* ------------------------------------------------------------------------
\* const initialUserState = { webAuthnCredentials: [], passcode: {...}, ... }
InitialUserStateLiteral ==
  [webAuthnCredentials |-> <<>>,
   passcode |-> [id |-> "", ttl |-> 0, resendAfter |-> 0],
   password |-> [retryAfter |-> 0]]

NoUsers == [u \in {} |-> InitialUserStateLiteral]

\* The item is absent, holds bytes that atob / decodeURI / JSON.parse reject
\* ("garbage"), decodes to JSON without a users object ("nousers"), or is a
\* store written by write().
BlobAbsent == [kind |-> "absent", users |-> NoUsers]
BlobGarbage == [kind |-> "garbage", users |-> NoUsers]
BlobNoUsers == [kind |-> "nousers", users |-> NoUsers]

\* The memory a Store call works on: the blob, the shared default object,
\* the clock, and whether an exception is propagating.
Mem == [blob |-> blob, init |-> initialUserState, now |-> now,
        writable |-> storageWritable, raised |-> FALSE]

\* State.read: atob(null) is the string decoded from "null", which
\* JSON.parse rejects like any other garbage, so both take the catch branch
\* and give { users: {} }. A decodable JSON value is returned as parsed,
\* with or without a users property.
read(m) ==
  IF m.blob.kind = "store" THEN [hasUsers |-> TRUE, users |-> m.blob.users]
  ELSE IF m.blob.kind = "nousers" THEN [hasUsers |-> FALSE, users |-> NoUsers]
  ELSE [hasUsers |-> TRUE, users |-> NoUsers]

\* State.write: JSON.stringify, encodeURIComponent, encodeURI, btoa and
\* setItem. The encoding is undone exactly by read for the strings and
\* integers a user record holds; setItem throws when storage is not writable.
write(m, store) ==
  IF m.writable
  THEN [m EXCEPT !.blob = [kind |-> "store", users |-> store.users]]
  ELSE [m EXCEPT !.raised = TRUE]

\* hasOwnProperty.call(store.users, userID) throws a TypeError when
\* store.users is undefined.
getUserStateRaises(m) == ~read(m).hasUsers

exists(m, userID) == userID \in DOMAIN read(m).users

\* State.getUserState: the parsed record, or the shared default object
\* itself (not a copy).
getUserState(m, userID) ==
  IF exists(m, userID) THEN read(m).users[userID] ELSE m.init

\* An assignment through the reference getUserState returned: a parsed
\* record is private to the call, the default object is the module's.
assign(m, userID, state) ==
  IF exists(m, userID) THEN m ELSE [m EXCEPT !.init = state]

\* setUserState that writes a store holding this user alone
setUserState_Alone(m, userID, state) ==
  write(m, [hasUsers |-> TRUE, users |-> [v \in {userID} |-> state]])

\* State.setUserState
setUserState(m, userID, state) ==
  LET store == read(m)
      users == [v \in DOMAIN store.users \cup {userID} |->
                  IF v = userID THEN state ELSE store.users[v]]
  IN write(m, [hasUsers |-> TRUE, users |-> users])

\* State.timeToRemainingSeconds
timeToRemainingSeconds(m, time) == time - m.now

\* remainingSecondsToTime that keeps the duration as it is
remainingSecondsToTime_Duration(m, seconds) == seconds

\* State.remainingSecondsToTime
remainingSecondsToTime(m, seconds) == m.now + seconds

\* ------------------------------------------------------------------------
\* State.ts: WebAuthnState, PasscodeState, PasswordState
\* ------------------------------------------------------------------------
\* Every mutator starts with getUserState, which may throw, and is skipped
\* when an exception is already propagating out of the calling handler.
skipped(m) == m.raised \/ getUserStateRaises(m)

throw(m) == [m EXCEPT !.raised = TRUE]

\* WebAuthnState.setCredentialID
setCredentialID(m, userID, credentialID) ==
  IF skipped(m) THEN throw(m)
  ELSE LET old == getUserState(m, userID)
           state == [old EXCEPT !.webAuthnCredentials = Append(@, credentialID)]
       IN setUserState(assign(m, userID, state), userID, state)

\* matchCredentials that returns every stored ID
matchCredentials_Unfiltered(m, userID, match) ==
  getUserState(m, userID).webAuthnCredentials

\* WebAuthnState.matchCredentials: the stored IDs, in stored order, that
\* some candidate carries.
matchCredentials(m, userID, match) ==
  SelectSeq(getUserState(m, userID).webAuthnCredentials,
            LAMBDA id : \E i \in DOMAIN match : match[i] = id)

\* PasscodeState.getActiveID
getActiveID(m, userID) == getUserState(m, userID).passcode.id

\* setActiveID that starts the record of the user afresh
setActiveID_Afresh(m, userID, passcodeID) ==
  IF skipped(m) THEN throw(m)
  ELSE LET state == [InitialUserStateLiteral EXCEPT !.passcode.id = passcodeID]
       IN setUserState(assign(m, userID, state), userID, state)

\* PasscodeState.setActiveID
setActiveID(m, userID, passcodeID) ==
  IF skipped(m) THEN throw(m)
  ELSE LET old == getUserState(m, userID)
           state == [old EXCEPT !.passcode.id = passcodeID]
       IN setUserState(assign(m, userID, state), userID, state)

\* removeActive that clears the resend cooldown as well
removeActive_ClearsCooldown(m, userID) ==
  IF skipped(m) THEN throw(m)
  ELSE LET old == getUserState(m, userID)
           state == [old EXCEPT !.passcode.id = m.init.passcode.id,
                                !.passcode.ttl = m.init.passcode.ttl,
                                !.passcode.resendAfter = 0]
       IN setUserState(assign(m, userID, state), userID, state)

\* PasscodeState.removeActive: id and ttl are copied from the default
\* object as it is now.
removeActive(m, userID) ==
  IF skipped(m) THEN throw(m)
  ELSE LET old == getUserState(m, userID)
           state == [old EXCEPT !.passcode.id = m.init.passcode.id,
                                !.passcode.ttl = m.init.passcode.ttl]
       IN setUserState(assign(m, userID, state), userID, state)

\* PasscodeState.getTTL
getTTL(m, userID) ==
  timeToRemainingSeconds(m, getUserState(m, userID).passcode.ttl)

\* PasscodeState.setTTL
setTTL(m, userID, seconds) ==
  IF skipped(m) THEN throw(m)
  ELSE LET old == getUserState(m, userID)
           state == [old EXCEPT !.passcode.ttl = remainingSecondsToTime(m, seconds)]
       IN setUserState(assign(m, userID, state), userID, state)

\* PasscodeState.getResendAfter
getResendAfter(m, userID) ==
  timeToRemainingSeconds(m, getUserState(m, userID).passcode.resendAfter)

\* PasscodeState.setResendAfter
setResendAfter(m, userID, seconds) ==
  IF skipped(m) THEN throw(m)
  ELSE LET old == getUserState(m, userID)
           state == [old EXCEPT
                       !.passcode.resendAfter = remainingSecondsToTime(m, seconds)]
       IN setUserState(assign(m, userID, state), userID, state)

\* PasswordState.getRetryAfter
getRetryAfter(m, userID) ==
  timeToRemainingSeconds(m, getUserState(m, userID).password.retryAfter)

\* PasswordState.setRetryAfter
setRetryAfter(m, userID, seconds) ==
  IF skipped(m) THEN throw(m)
  ELSE LET old == getUserState(m, userID)
           state == [old EXCEPT
                       !.password.retryAfter = remainingSecondsToTime(m, seconds)]
       IN setUserState(assign(m, userID, state), userID, state)

\* ------------------------------------------------------------------------
\* Client.ts: HttpClient and Response
\* ------------------------------------------------------------------------
\* What comes back for one request: how the XMLHttpRequest ended, the status,
\* and the parts of body and headers a handler reads (id: Passcode.id or
\* WebauthnFinalized.credential_id; user: WebauthnFinalized.user_id; secs:
\* Passcode.ttl or the X-Retry-After header, 0 when the header is missing;
\* token: the X-Auth-Token header, "" when missing; json: whether
\* JSON.parse accepts the body).
Reply(ev, status, id, user, secs) ==
  [ev |-> ev, status |-> status, id |-> id, user |-> user, secs |-> secs,
   token |-> "", json |-> TRUE]

NoReply == Reply("", 0, "", "", 0)

\* Replies that are no success: the request failed, or the status is not
\* 2xx (with no X-Retry-After header).
FailureReplies ==
  {Reply("error", 0, "", "", 0), Reply("timeout", 0, "", "", 0)}
    \cup {Reply("load", s, "", "", 0) : s \in FailureStatuses}

\* Replies to a request whose response body no handler reads.
PlainReplies ==
  FailureReplies \cup {Reply("load", s, "", "", 0) : s \in SuccessStatuses}

\* Response.ok
ok(r) == r.status >= 200 /\ r.status <= 299

\* HttpClient._fetch: onerror rejects with TechnicalError, ontimeout with
\* RequestTimeoutError, onload resolves with the Response.
fetchRejects(r) == r.ev # "load"

fetchError(r) ==
  IF r.ev = "timeout" THEN "RequestTimeoutError" ELSE "TechnicalError"

\* HttpClient._fetch, onload: a non-empty X-Auth-Token header replaces the
\* cookie; onerror and ontimeout leave it alone.
setCookie(c, r) ==
  IF r.ev = "load" /\ r.token # "" THEN r.token ELSE c

\* The steps at which an operation waits for an XMLHttpRequest (at the
\* others it waits for the platform).
RequestSteps ==
  {"initialize", "finalize", "login", "update", "getInfo", "create", "me",
   "users", "config"}

\* Sent that keeps the token the operation's first request carried
Sent_KeepsBearer(f, c) ==
  [f EXCEPT !.bearer = IF f.step \notin RequestSteps THEN ""
                       ELSE IF f.bearer # "" THEN f.bearer ELSE c]

\* HttpClient._fetch, before the request is sent: Cookies.get(cookieName)
\* is read and, when not empty, sent as Authorization: Bearer.
Sent(f, c) ==
  [f EXCEPT !.bearer = IF f.step \in RequestSteps THEN c ELSE ""]

\* The values an X-Auth-Token header may have.
Tokens == {"t1", "t2"}

WithToken(r, t) == [r EXCEPT !.token = t]

\* The reply as the handlers read it: no handler looks at X-Auth-Token.
Untokened(r) == [r EXCEPT !.token = ""]

\* Responses whose body JSON.parse rejects: 204 with an empty body, the
\* HTML page of a gateway.
Unparsable ==
  {[Reply("load", st, "", "", 0) EXCEPT !.json = FALSE] : st \in {204, 502}}

\* User.webauthn_credentials as the server sent it: the property may be
\* missing, else it lists credential IDs.
Credentials(given, ids) == [given |-> given, ids |-> ids]

NoCredentials == Credentials(FALSE, <<>>)

CredentialLists ==
  UNION {[1..n -> CredentialIDs] : n \in 0..MaxCreds}

UserCredentials ==
  {NoCredentials} \cup {Credentials(TRUE, l) : l \in CredentialLists}

\* ------------------------------------------------------------------------
\* What a step's caller observed
\* ------------------------------------------------------------------------
\* kind is "returned" / "raised" for a synchronous Store call, "pending"
\* while a client operation waits, "resolved" or the name of the error class
\* it rejected with once it has settled. reply is what the step was handed
\* (NoReply for a call); id and secs are the identifier and the number the
\* step was called with or handed to its caller; creds is the
\* User.webauthn_credentials (or the Credential[]) a step was called with,
\* flag the boolean and list the credential IDs it handed to its caller.
Observed(op, user, step, reply, kind, id, secs) ==
  [op |-> op, user |-> user, step |-> step, reply |-> reply, kind |-> kind,
   id |-> id, secs |-> secs, creds |-> NoCredentials, flag |-> FALSE,
   list |-> <<>>]

\* An exception that is none of the SDK's error classes: the TypeError of
\* getUserState or the DOMException of localStorage.setItem.
StoreError == "StoreError"

\* The result of the n Store mutator calls of one step becomes the new
\* state.
Commit(m, n) ==
  /\ n > 0 => writes < MaxOps
  /\ blob' = m.blob
  /\ initialUserState' = m.init
  /\ writes' = IF n > 0 THEN writes + 1 ELSE writes

CallKind(m) == IF m.raised THEN "raised" ELSE "returned"

\* ------------------------------------------------------------------------
\* Direct calls of the exported State classes
\* ------------------------------------------------------------------------
StoreCall(op, u, m, id, secs) ==
  /\ Commit(m, 1)
  /\ last' = Observed(op, u, "", NoReply, CallKind(m), id, secs)
  /\ UNCHANGED <<now, storageWritable, flight, cookie, tabs>>

SetCredentialID(u, c) ==
  /\ Len(getUserState(Mem, u).webAuthnCredentials) < MaxCreds
  /\ StoreCall("setCredentialID", u, setCredentialID(Mem, u, c), c, 0)

SetActiveID(u, p) ==
  StoreCall("setActiveID", u, setActiveID(Mem, u, p), p, 0)

RemoveActive(u) ==
  StoreCall("removeActive", u, removeActive(Mem, u), "", 0)

SetTTL(u, s) ==
  StoreCall("setTTL", u, setTTL(Mem, u, s), "", s)

SetResendAfter(u, s) ==
  StoreCall("setResendAfter", u, setResendAfter(Mem, u, s), "", s)

SetRetryAfter(u, s) ==
  StoreCall("setRetryAfter", u, setRetryAfter(Mem, u, s), "", s)

\* matchCredentials(userID, match) reads the Store and returns the matches.
MatchCredentials(u, match) ==
  /\ last' = [Observed("matchCredentials", u, "", NoReply,
                        IF getUserStateRaises(Mem) THEN "raised" ELSE "returned",
                        "", 0)
                EXCEPT !.creds = Credentials(TRUE, match),
                       !.list = IF getUserStateRaises(Mem) THEN <<>>
                                ELSE matchCredentials(Mem, u, match)]
  /\ UNCHANGED <<blob, initialUserState, now, storageWritable, flight, writes,
                 cookie, tabs>>

\* a getter that writes back the state it has read
readOnly_Materialises(m, userID) ==
  IF getUserStateRaises(m) THEN throw(m)
  ELSE setUserState(m, userID, getUserState(m, userID))

\* The memory after getTTL, getResendAfter or getRetryAfter: each calls
\* getUserState, which may throw, and nothing else.
readOnly(m, userID) ==
  IF getUserStateRaises(m) THEN throw(m) ELSE m

\* A getter called directly or through PasscodeClient.getTTL,
\* PasscodeClient.getResendAfter, PasswordClient.getRetryAfter.
GetterCall(op, u, value) ==
  /\ Commit(readOnly(Mem, u), 0)
  /\ last' = Observed(op, u, "", NoReply, CallKind(readOnly(Mem, u)), "",
                      IF getUserStateRaises(Mem) THEN 0 ELSE value)
  /\ UNCHANGED <<now, storageWritable, flight, cookie, tabs>>

GetTTL(u) == GetterCall("getTTL", u, getTTL(Mem, u))

GetResendAfter(u) == GetterCall("getResendAfter", u, getResendAfter(Mem, u))

GetRetryAfter(u) == GetterCall("getRetryAfter", u, getRetryAfter(Mem, u))

\* One second passes.
Tick ==
  /\ now < MaxTime
  /\ now' = now + 1
  /\ last' = Observed("tick", "", "", NoReply, "", "", 0)
  /\ UNCHANGED <<blob, initialUserState, storageWritable, flight, writes,
                 cookie, tabs>>

\* ------------------------------------------------------------------------
\* Client operations in flight
\* ------------------------------------------------------------------------
\* What a handler hands back: the memory after its Store calls, the number
\* of Store mutators it called, how the operation settled ("pending": it
\* goes on to its next suspension point), and the value or error payload the
\* caller receives. An exception of a Store call reaches the final catch of
\* the chain and is passed to reject as it is.
Settled(m, n, kind, id, secs) ==
  [m |-> m, n |-> n, kind |-> IF m.raised THEN StoreError ELSE kind,
   id |-> id, secs |-> secs]

\* An operation waiting for `step`; pid is the passcode ID it submitted,
\* creds the User.webauthn_credentials it was called with and bearer the
\* token its pending request carries ("" for none).
InFlight(op, user, step, pid) ==
  [op |-> op, user |-> user, step |-> step, pid |-> pid,
   creds |-> NoCredentials, bearer |-> ""]

\* The hosting UI runs one operation at a time.
CanStart == flight = {}

Start(op, u, step, pid) ==
  /\ CanStart
  /\ flight' = flight \cup {Sent(InFlight(op, u, step, pid), cookie)}
  /\ last' = Observed(op, u, "call", NoReply, "pending", pid, 0)
  /\ UNCHANGED <<blob, initialUserState, now, storageWritable, writes,
                 cookie, tabs>>

\* A step of an operation in flight: it settles, or moves on to `next`.
Advance(f, h, next, r) ==
  /\ Commit(h.m, h.n)
  /\ last' = Observed(f.op, f.user, f.step, r, h.kind, h.id, h.secs)
  /\ cookie' = setCookie(cookie, r)
  /\ flight' = IF h.kind = "pending"
               THEN (flight \ {f}) \cup
                      {Sent([f EXCEPT !.step = next], setCookie(cookie, r))}
               ELSE flight \ {f}
  /\ UNCHANGED <<now, storageWritable, tabs>>

\* ------------------------------------------------------------------------
\* Client.ts: PasscodeClient
\* ------------------------------------------------------------------------
\* A success carries Passcode{id, ttl}; a 429 may carry X-Retry-After.
PasscodeInitializeReplies ==
  FailureReplies
    \cup {Reply("load", st, p, "", s) :
            st \in SuccessStatuses, p \in PasscodeIDs, s \in Seconds}
    \cup {Reply("load", 429, "", "", s) : s \in Seconds}

\* initialize with a success handler that forgets setTTL
initialize_WithoutTTL(m, userID, r) ==
  IF fetchRejects(r) THEN Settled(m, 0, fetchError(r), "", 0)
  ELSE IF ok(r)
    THEN Settled(setActiveID(m, userID, r.id), 1, "resolved", r.id, r.secs)
  ELSE IF r.status = 429
    THEN Settled(setResendAfter(m, userID, r.secs), 1,
                 "TooManyRequestsError", "", r.secs)
  ELSE Settled(m, 0, "TechnicalError", "", 0)

\* initialize with a 429 handler that does not record the cooldown
initialize_429Unrecorded(m, userID, r) ==
  IF fetchRejects(r) THEN Settled(m, 0, fetchError(r), "", 0)
  ELSE IF ok(r)
    THEN Settled(setTTL(setActiveID(m, userID, r.id), userID, r.secs), 2,
                 "resolved", r.id, r.secs)
  ELSE IF r.status = 429
    THEN Settled(m, 0, "TooManyRequestsError", "", r.secs)
  ELSE Settled(m, 0, "TechnicalError", "", 0)

\* PasscodeClient.initialize, from the response on
initialize(m, userID, r) ==
  IF fetchRejects(r) THEN Settled(m, 0, fetchError(r), "", 0)
  ELSE IF ok(r)
    THEN Settled(setTTL(setActiveID(m, userID, r.id), userID, r.secs), 2,
                 "resolved", r.id, r.secs)
  ELSE IF r.status = 429
    THEN Settled(setResendAfter(m, userID, r.secs), 1,
                 "TooManyRequestsError", "", r.secs)
  ELSE Settled(m, 0, "TechnicalError", "", 0)

\* finalize with 401 handled like 404 and 410
finalize_401Removes(m, userID, r) ==
  IF fetchRejects(r) THEN Settled(m, 0, fetchError(r), "", 0)
  ELSE IF ok(r)
    THEN Settled(setResendAfter(removeActive(m, userID), userID, 0), 2,
                 "resolved", "", 0)
  ELSE IF r.status = 401
    THEN Settled(removeActive(m, userID), 1, "InvalidPasscodeError", "", 0)
  ELSE IF r.status = 404 \/ r.status = 410
    THEN Settled(removeActive(m, userID), 1,
                 "MaxNumOfPasscodeAttemptsReachedError", "", 0)
  ELSE Settled(m, 0, "TechnicalError", "", 0)

\* PasscodeClient.finalize, from the response on
finalize(m, userID, r) ==
  IF fetchRejects(r) THEN Settled(m, 0, fetchError(r), "", 0)
  ELSE IF ok(r)
    THEN Settled(setResendAfter(removeActive(m, userID), userID, 0), 2,
                 "resolved", "", 0)
  ELSE IF r.status = 401
    THEN Settled(m, 0, "InvalidPasscodeError", "", 0)
  ELSE IF r.status = 404 \/ r.status = 410
    THEN Settled(removeActive(m, userID), 1,
                 "MaxNumOfPasscodeAttemptsReachedError", "", 0)
  ELSE Settled(m, 0, "TechnicalError", "", 0)

\* initialize(userID) posts /passcode/login/initialize.
PasscodeInitialize(u) ==
  Start("passcode.initialize", u, "initialize", "")

PasscodeInitializeReply(f, r) ==
  /\ f \in flight /\ f.op = "passcode.initialize"
  /\ r \in PasscodeInitializeReplies
  /\ Advance(f, initialize(Mem, f.user, r), "", r)

\* finalize(userID, code) reads the active passcode ID before the promise
\* is built, so a throwing getUserState makes the call itself throw; else
\* it posts /passcode/login/finalize with that ID.
PasscodeFinalize(u) ==
  IF getUserStateRaises(Mem)
  THEN /\ CanStart
       /\ last' = Observed("passcode.finalize", u, "call", NoReply,
                           StoreError, "", 0)
       /\ UNCHANGED <<blob, initialUserState, now, storageWritable, flight, writes,
                      cookie, tabs>>
  ELSE Start("passcode.finalize", u, "finalize", getActiveID(Mem, u))

PasscodeFinalizeReply(f, r) ==
  /\ f \in flight /\ f.op = "passcode.finalize"
  /\ r \in PlainReplies
  /\ Advance(f, finalize(Mem, f.user, r), "", r)

\* PasscodeClient.getTTL / getResendAfter: plain reads of the Store
PasscodeGetTTL(u) == getTTL(Mem, u)

PasscodeGetResendAfter(u) == getResendAfter(Mem, u)

\* ------------------------------------------------------------------------
\* Client.ts: WebauthnClient.register
\* ------------------------------------------------------------------------
\* A success of /webauthn/registration/finalize carries
\* WebauthnFinalized{user_id, credential_id}.
WebauthnFinalizeReplies ==
  FailureReplies
    \cup {Reply("load", st, c, u, 0) :
            st \in SuccessStatuses, c \in CredentialIDs, u \in Users}

\* What the platform ceremony hands back: a credential, or a rejection.
Created == Reply("created", 0, "", "", 0)
Cancelled == Reply("cancelled", 0, "", "", 0)

\* register, first response: a rejected request and the TechnicalError
\* thrown for a status that is not ok both skip the ceremony and reach the
\* catch that rethrows whatever it gets as WebAuthnRequestCancelledError.
registerInitialize(m, r) ==
  IF fetchRejects(r) \/ ~ok(r)
  THEN Settled(m, 0, "WebAuthnRequestCancelledError", "", 0)
  ELSE Settled(m, 0, "pending", "", 0)

\* register, after createWebauthnCredential(challenge): a rejection reaches
\* the same catch; an attestation gets its transports copied and is posted
\* to /webauthn/registration/finalize.
\* register that stores the new credential as soon as the platform has
\* created it, before the server has accepted it
registerCeremony_StoresAhead(m, r) ==
  IF r = Created
  THEN Settled(setCredentialID(m, "u1", "c1"), 1, "pending", "", 0)
  ELSE Settled(m, 0, "WebAuthnRequestCancelledError", "", 0)

registerCeremony(m, r) ==
  IF r = Created THEN Settled(m, 0, "pending", "", 0)
  ELSE Settled(m, 0, "WebAuthnRequestCancelledError", "", 0)

\* register, second response
registerFinalize(m, r) ==
  IF fetchRejects(r) THEN Settled(m, 0, fetchError(r), "", 0)
  ELSE IF ok(r)
    THEN Settled(setCredentialID(m, r.user, r.id), 1, "resolved", "", 0)
  ELSE Settled(m, 0, "TechnicalError", "", 0)

\* register() posts /webauthn/registration/initialize.
WebauthnRegister ==
  Start("webauthn.register", "", "initialize", "")

WebauthnRegisterInitializeReply(f, r) ==
  /\ f \in flight /\ f.op = "webauthn.register" /\ f.step = "initialize"
  /\ r \in PlainReplies
  /\ Advance(f, registerInitialize(Mem, r), "ceremony", r)

WebauthnRegisterCeremony(f, r) ==
  /\ f \in flight /\ f.op = "webauthn.register" /\ f.step = "ceremony"
  /\ r \in {Created, Cancelled}
  /\ Advance(f, registerCeremony(Mem, r), "finalize", r)

WebauthnRegisterFinalizeReply(f, r) ==
  /\ f \in flight /\ f.op = "webauthn.register" /\ f.step = "finalize"
  /\ r \in WebauthnFinalizeReplies
  /\ (~fetchRejects(r) /\ ok(r)) =>
       Len(getUserState(Mem, r.user).webAuthnCredentials) < MaxCreds
  /\ Advance(f, registerFinalize(Mem, r), "", r)

\* ------------------------------------------------------------------------
\* Client.ts: WebauthnClient.login
\* ------------------------------------------------------------------------
\* login's first catch has passed the error to reject and returned, so the
\* rest of the chain still runs, on a promise that has settled.
Unobserved == "unobserved"

\* login with register's chain: no catch between the challenge request and
\* the catch around the ceremony
loginInitialize_NoCatch(m, r) ==
  IF fetchRejects(r) \/ ~ok(r)
  THEN Settled(m, 0, "WebAuthnRequestCancelledError", "", 0)
  ELSE Settled(m, 0, "pending", "", 0)

\* login, first response: a rejected request and the TechnicalError thrown
\* for a status that is not ok reach the catch that calls reject(e).
loginInitialize(m, r) ==
  IF fetchRejects(r) THEN Settled(m, 0, fetchError(r), "", 0)
  ELSE IF ~ok(r) THEN Settled(m, 0, "TechnicalError", "", 0)
  ELSE Settled(m, 0, "pending", "", 0)

\* login that posts to /webauthn/login/finalize whatever the ceremony gave
loginCeremony_PostsAnyway(m, r) ==
  Settled(m, 0, "pending", "", 0)

\* login, after getWebauthnCredential(challenge): a rejection is rethrown
\* as WebAuthnRequestCancelledError; an assertion is posted to
\* /webauthn/login/finalize.
loginCeremony(m, r) ==
  IF r = Created THEN Settled(m, 0, "pending", "", 0)
  ELSE Settled(m, 0, "WebAuthnRequestCancelledError", "", 0)

\* login that files the credential under the user ID it was called with
loginFinalize_KeyedByCaller(m, userID, r) ==
  IF fetchRejects(r) THEN Settled(m, 0, fetchError(r), "", 0)
  ELSE IF ok(r)
    THEN Settled(setCredentialID(m, userID, r.id), 1, "resolved", "", 0)
  ELSE IF r.status = 400 \/ r.status = 401
    THEN Settled(m, 0, "InvalidWebauthnCredentialError", "", 0)
  ELSE Settled(m, 0, "TechnicalError", "", 0)

\* login, second response; userID is the argument of login, which the
\* handlers do not use.
loginFinalize(m, userID, r) ==
  IF fetchRejects(r) THEN Settled(m, 0, fetchError(r), "", 0)
  ELSE IF ok(r)
    THEN Settled(setCredentialID(m, r.user, r.id), 1, "resolved", "", 0)
  ELSE IF r.status = 400 \/ r.status = 401
    THEN Settled(m, 0, "InvalidWebauthnCredentialError", "", 0)
  ELSE Settled(m, 0, "TechnicalError", "", 0)

\* login(userID) posts /webauthn/login/initialize; userID is optional.
WebauthnLogin(u) ==
  Start("webauthn.login", u, "initialize", "")

\* After reject(e) the chain goes on to getWebauthnCredential(undefined).
WebauthnLoginInitializeReply(f, r) ==
  /\ f \in flight /\ f.op = "webauthn.login" /\ f.step = "initialize"
  /\ r \in PlainReplies
  /\ LET h == loginInitialize(Mem, r)
     IN /\ Commit(h.m, h.n)
        /\ last' = Observed(f.op, f.user, f.step, r, h.kind, h.id, h.secs)
        /\ flight' = (flight \ {f}) \cup
                       {Sent([f EXCEPT !.step = IF h.kind = "pending"
                                                THEN "ceremony" ELSE Unobserved],
                             setCookie(cookie, r))}
  /\ cookie' = setCookie(cookie, r)
  /\ UNCHANGED <<now, storageWritable, tabs>>

\* getWebauthnCredential(undefined) rejects (the conversion of the request
\* options throws on undefined); the rejection is rethrown as
\* WebAuthnRequestCancelledError and reaches the last catch, whose reject
\* does nothing to a promise that has settled.
WebauthnLoginUnobserved(f) ==
  /\ f \in flight /\ f.op = "webauthn.login" /\ f.step = Unobserved
  /\ flight' = flight \ {f}
  /\ last' = Observed(f.op, f.user, f.step, Cancelled, Unobserved, "", 0)
  /\ UNCHANGED <<blob, initialUserState, now, storageWritable, writes,
                 cookie, tabs>>

WebauthnLoginCeremony(f, r) ==
  /\ f \in flight /\ f.op = "webauthn.login" /\ f.step = "ceremony"
  /\ r \in {Created, Cancelled}
  /\ Advance(f, loginCeremony(Mem, r), "finalize", r)

WebauthnLoginFinalizeReply(f, r) ==
  /\ f \in flight /\ f.op = "webauthn.login" /\ f.step = "finalize"
  /\ r \in WebauthnFinalizeReplies
  /\ (~fetchRejects(r) /\ ok(r)) =>
       Len(getUserState(Mem, r.user).webAuthnCredentials) < MaxCreds
  /\ Advance(f, loginFinalize(Mem, f.user, r), "", r)

\* ------------------------------------------------------------------------
\* Client.ts: WebauthnClient.shouldRegister
\* ------------------------------------------------------------------------
\* What isUserVerifyingPlatformAuthenticatorAvailable() settles with.
Supported == Reply("supported", 0, "", "", 0)
Unsupported == Reply("unsupported", 0, "", "", 0)
SupportRejected == Reply("rejected", 0, "", "", 0)

\* shouldRegister that asks the platform only
shouldRegister_IgnoresStore(m, userID, creds, r) ==
  IF r = SupportRejected
  THEN [kind |-> "TechnicalError", flag |-> FALSE]
  ELSE [kind |-> "resolved", flag |-> r = Supported]

\* WebauthnClient.shouldRegister, from the platform's answer on: what the
\* promise settles with. A throwing matchCredentials reaches the catch like
\* a rejection of the platform query.
shouldRegister(m, userID, creds, r) ==
  IF r = SupportRejected
    THEN [kind |-> "TechnicalError", flag |-> FALSE]
  ELSE IF ~creds.given \/ Len(creds.ids) = 0
    THEN [kind |-> "resolved", flag |-> r = Supported]
  ELSE IF getUserStateRaises(m)
    THEN [kind |-> "TechnicalError", flag |-> FALSE]
  ELSE [kind |-> "resolved",
        flag |-> r = Supported
                   /\ Len(matchCredentials(m, userID, creds.ids)) = 0]

\* shouldRegister(user) asks the platform.
WebauthnShouldRegister(u, creds) ==
  /\ CanStart
  /\ flight' = flight \cup
       {[InFlight("webauthn.shouldRegister", u, "support", "")
           EXCEPT !.creds = creds]}
  /\ last' = [Observed("webauthn.shouldRegister", u, "call", NoReply,
                        "pending", "", 0) EXCEPT !.creds = creds]
  /\ UNCHANGED <<blob, initialUserState, now, storageWritable, writes,
                 cookie, tabs>>

WebauthnShouldRegisterReply(f, r) ==
  /\ f \in flight /\ f.op = "webauthn.shouldRegister"
  /\ r \in {Supported, Unsupported, SupportRejected}
  /\ LET h == shouldRegister(Mem, f.user, f.creds, r)
     IN last' = [Observed(f.op, f.user, f.step, r, h.kind, "", 0)
                   EXCEPT !.creds = f.creds, !.flag = h.flag]
  /\ flight' = flight \ {f}
  /\ UNCHANGED <<blob, initialUserState, now, storageWritable, writes,
                 cookie, tabs>>

\* ------------------------------------------------------------------------
\* Client.ts: PasswordClient
\* ------------------------------------------------------------------------
\* No handler reads a body; a 429 may carry X-Retry-After.
PasswordLoginReplies ==
  PlainReplies \cup {Reply("load", 429, "", "", s) : s \in Seconds}

\* login with a 429 handler that does not record the cooldown
passwordLogin_429Unrecorded(m, userID, r) ==
  IF fetchRejects(r) THEN Settled(m, 0, fetchError(r), "", 0)
  ELSE IF ok(r) THEN Settled(m, 0, "resolved", "", 0)
  ELSE IF r.status = 401 THEN Settled(m, 0, "InvalidPasswordError", "", 0)
  ELSE IF r.status = 429
    THEN Settled(m, 0, "TooManyRequestsError", "", r.secs)
  ELSE Settled(m, 0, "TechnicalError", "", 0)

\* login with a 401 handler that starts a cooldown of its own
passwordLogin_401Limits(m, userID, r) ==
  IF fetchRejects(r) THEN Settled(m, 0, fetchError(r), "", 0)
  ELSE IF ok(r) THEN Settled(m, 0, "resolved", "", 0)
  ELSE IF r.status = 401
    THEN Settled(setRetryAfter(m, userID, 1), 1, "InvalidPasswordError", "", 0)
  ELSE IF r.status = 429
    THEN Settled(setRetryAfter(m, userID, r.secs), 1,
                 "TooManyRequestsError", "", r.secs)
  ELSE Settled(m, 0, "TechnicalError", "", 0)

\* PasswordClient.login, from the response on
\* login that records the cooldown in a record it starts afresh
passwordLogin_StartsAfresh(m, userID, r) ==
  IF fetchRejects(r) THEN Settled(m, 0, fetchError(r), "", 0)
  ELSE IF ok(r) THEN Settled(m, 0, "resolved", "", 0)
  ELSE IF r.status = 401 THEN Settled(m, 0, "InvalidPasswordError", "", 0)
  ELSE IF r.status = 429
    THEN Settled(setUserState(m, userID,
                   [InitialUserStateLiteral EXCEPT
                      !.password.retryAfter =
                        remainingSecondsToTime(m, r.secs)]),
                 1, "TooManyRequestsError", "", r.secs)
  ELSE Settled(m, 0, "TechnicalError", "", 0)

passwordLogin(m, userID, r) ==
  IF fetchRejects(r) THEN Settled(m, 0, fetchError(r), "", 0)
  ELSE IF ok(r) THEN Settled(m, 0, "resolved", "", 0)
  ELSE IF r.status = 401 THEN Settled(m, 0, "InvalidPasswordError", "", 0)
  ELSE IF r.status = 429
    THEN Settled(setRetryAfter(m, userID, r.secs), 1,
                 "TooManyRequestsError", "", r.secs)
  ELSE Settled(m, 0, "TechnicalError", "", 0)

\* update with the 429 handling of login
passwordUpdate_Limits(m, userID, r) ==
  IF fetchRejects(r) THEN Settled(m, 0, fetchError(r), "", 0)
  ELSE IF ok(r) THEN Settled(m, 0, "resolved", "", 0)
  ELSE IF r.status = 429
    THEN Settled(setRetryAfter(m, userID, r.secs), 1,
                 "TooManyRequestsError", "", r.secs)
  ELSE Settled(m, 0, "TechnicalError", "", 0)

\* PasswordClient.update, from the response on
passwordUpdate(m, userID, r) ==
  IF fetchRejects(r) THEN Settled(m, 0, fetchError(r), "", 0)
  ELSE IF ok(r) THEN Settled(m, 0, "resolved", "", 0)
  ELSE Settled(m, 0, "TechnicalError", "", 0)

\* login(userID, password) posts /password/login.
PasswordLogin(u) ==
  Start("password.login", u, "login", "")

PasswordLoginReply(f, r) ==
  /\ f \in flight /\ f.op = "password.login"
  /\ r \in PasswordLoginReplies
  /\ Advance(f, passwordLogin(Mem, f.user, r), "", r)

\* update(userID, password) puts /password.
PasswordUpdate(u) ==
  Start("password.update", u, "update", "")

PasswordUpdateReply(f, r) ==
  /\ f \in flight /\ f.op = "password.update"
  /\ r \in PasswordLoginReplies
  /\ Advance(f, passwordUpdate(Mem, f.user, r), "", r)

\* PasswordClient.getRetryAfter: a plain read of the Store
PasswordGetRetryAfter(u) == getRetryAfter(Mem, u)

\* ------------------------------------------------------------------------
\* Client.ts: UserClient
\* ------------------------------------------------------------------------
\* A success carries a body with an id (UserInfo, User or Me).
UserReplies ==
  FailureReplies
    \cup {Reply("load", st, "", u, 0) : st \in SuccessStatuses, u \in Users}

\* UserClient.getInfo, from the response on
getInfo(m, r) ==
  IF fetchRejects(r) THEN Settled(m, 0, fetchError(r), "", 0)
  ELSE IF ok(r) THEN Settled(m, 0, "resolved", r.user, 0)
  ELSE IF r.status = 404 THEN Settled(m, 0, "NotFoundError", "", 0)
  ELSE Settled(m, 0, "TechnicalError", "", 0)

\* create with the 404 handling of getInfo next to its own
create_404NotFound(m, r) ==
  IF fetchRejects(r) THEN Settled(m, 0, fetchError(r), "", 0)
  ELSE IF ok(r) THEN Settled(m, 0, "resolved", r.user, 0)
  ELSE IF r.status = 409 THEN Settled(m, 0, "ConflictError", "", 0)
  ELSE IF r.status = 404 THEN Settled(m, 0, "NotFoundError", "", 0)
  ELSE Settled(m, 0, "TechnicalError", "", 0)

\* UserClient.create, from the response on
create(m, r) ==
  IF fetchRejects(r) THEN Settled(m, 0, fetchError(r), "", 0)
  ELSE IF ok(r) THEN Settled(m, 0, "resolved", r.user, 0)
  ELSE IF r.status = 409 THEN Settled(m, 0, "ConflictError", "", 0)
  ELSE Settled(m, 0, "TechnicalError", "", 0)

\* UserClient.getCurrent, response to GET /me: on success the chain goes on
\* with me.id.
getCurrentMe(m, r) ==
  IF fetchRejects(r) THEN Settled(m, 0, fetchError(r), "", 0)
  ELSE IF ok(r) THEN Settled(m, 0, "pending", r.user, 0)
  ELSE IF r.status = 400 \/ r.status = 401 \/ r.status = 404
    THEN Settled(m, 0, "UnauthorizedError", "", 0)
  ELSE Settled(m, 0, "TechnicalError", "", 0)

\* getCurrent whose second step knows 401 only
getCurrentUser_401Only(m, r) ==
  IF fetchRejects(r) THEN Settled(m, 0, fetchError(r), "", 0)
  ELSE IF ok(r) THEN Settled(m, 0, "resolved", r.user, 0)
  ELSE IF r.status = 401 THEN Settled(m, 0, "UnauthorizedError", "", 0)
  ELSE Settled(m, 0, "TechnicalError", "", 0)

\* UserClient.getCurrent, response to GET /users/{id}
getCurrentUser(m, r) ==
  IF fetchRejects(r) THEN Settled(m, 0, fetchError(r), "", 0)
  ELSE IF ok(r) THEN Settled(m, 0, "resolved", r.user, 0)
  ELSE IF r.status = 400 \/ r.status = 401 \/ r.status = 404
    THEN Settled(m, 0, "UnauthorizedError", "", 0)
  ELSE Settled(m, 0, "TechnicalError", "", 0)

\* getInfo(email) posts /user.
UserGetInfo ==
  Start("user.getInfo", "", "getInfo", "")

UserGetInfoReply(f, r) ==
  /\ f \in flight /\ f.op = "user.getInfo"
  /\ Untokened(r) \in UserReplies
  /\ Advance(f, getInfo(Mem, r), "", r)

\* create(email) posts /users.
UserCreate ==
  Start("user.create", "", "create", "")

UserCreateReply(f, r) ==
  /\ f \in flight /\ f.op = "user.create"
  /\ Untokened(r) \in UserReplies
  /\ Advance(f, create(Mem, r), "", r)

\* getCurrent() gets /me.
UserGetCurrent ==
  Start("user.getCurrent", "", "me", "")

\* On success the operation waits for GET /users/{me.id}; user is that id.
UserGetCurrentMeReply(f, r) ==
  /\ f \in flight /\ f.op = "user.getCurrent" /\ f.step = "me"
  /\ Untokened(r) \in UserReplies
  /\ LET h == getCurrentMe(Mem, r)
     IN /\ Commit(h.m, h.n)
        /\ last' = Observed(f.op, f.user, f.step, r, h.kind, h.id, h.secs)
        /\ flight' = IF h.kind = "pending"
                     THEN (flight \ {f}) \cup
                            {Sent([f EXCEPT !.step = "users", !.user = h.id],
                                  setCookie(cookie, r))}
                     ELSE flight \ {f}
  /\ cookie' = setCookie(cookie, r)
  /\ UNCHANGED <<now, storageWritable, tabs>>

UserGetCurrentUserReply(f, r) ==
  /\ f \in flight /\ f.op = "user.getCurrent" /\ f.step = "users"
  /\ Untokened(r) \in UserReplies
  /\ Advance(f, getCurrentUser(Mem, r), "", r)

\* ------------------------------------------------------------------------
\* Client.ts: ConfigClient
\* ------------------------------------------------------------------------
\* ConfigClient.get, from the response on
configGet(m, r) ==
  IF fetchRejects(r) THEN Settled(m, 0, fetchError(r), "", 0)
  ELSE IF ok(r) THEN Settled(m, 0, "resolved", "", 0)
  ELSE Settled(m, 0, "TechnicalError", "", 0)

\* get() gets /.well-known/config.
ConfigGet ==
  Start("config.get", "", "config", "")

ConfigGetReply(f, r) ==
  /\ f \in flight /\ f.op = "config.get"
  /\ Untokened(r) \in PlainReplies
  /\ Advance(f, configGet(Mem, r), "", r)

\* ------------------------------------------------------------------------
\* Client.ts: a response that Response cannot decode
\* ------------------------------------------------------------------------
Unsettled == "unsettled"

\* onload with a body that is not JSON: the cookie is set, then
\* new Response(xhr) throws in JSON.parse, inside the event handler, so
\* resolve is not reached; the request has ended, so neither onerror nor
\* ontimeout will follow, and the promise of _fetch stays pending.
ResponseThrows(f, r) ==
  /\ f \in flight /\ f.step \in RequestSteps
  /\ r.ev = "load" /\ ~r.json
  /\ cookie' = setCookie(cookie, r)
  /\ flight' = (flight \ {f}) \cup {[f EXCEPT !.step = Unsettled]}
  /\ last' = Observed(f.op, f.user, f.step, r, "pending", "", 0)
  /\ UNCHANGED <<blob, initialUserState, now, storageWritable, writes, tabs>>

\* ------------------------------------------------------------------------
\* Client.ts: operations called without waiting for one another
\* ------------------------------------------------------------------------
\* Nothing in a client keeps a caller from starting an operation while
\* others wait for their responses; the responses are handled one at a
\* time, each handler running to its end.
MaxFlights == 2

StartAlongside(op, u, step, pid) ==
  /\ Cardinality(flight) < MaxFlights
  /\ writes < MaxOps
  /\ Sent(InFlight(op, u, step, pid), cookie) \notin flight
  /\ flight' = flight \cup {Sent(InFlight(op, u, step, pid), cookie)}
  /\ last' = Observed(op, u, "call", NoReply, "pending", pid, 0)
  /\ UNCHANGED <<blob, initialUserState, now, storageWritable, writes,
                 cookie, tabs>>

ConcurrentPasscodeInitialize(u) ==
  StartAlongside("passcode.initialize", u, "initialize", "")

\* finalize reads the active passcode ID when it is called.
ConcurrentPasscodeFinalize(u) ==
  /\ ~getUserStateRaises(Mem)
  /\ StartAlongside("passcode.finalize", u, "finalize", getActiveID(Mem, u))

ConcurrentPasswordLogin(u) ==
  StartAlongside("password.login", u, "login", "")

\* ------------------------------------------------------------------------
\* State.ts run by two browsing contexts on one localStorage
\* ------------------------------------------------------------------------
\* Two tabs of one origin share the item and nothing else: each has its own
\* module, so its own default object. A mutator touches the item three
\* times (getItem in getUserState, getItem and setItem in setUserState);
\* the calls of another tab may fall between them.
Tabs == {"a", "b"}

\* A tab outside a mutator: pc is where it stands, user and state the
\* arguments its setUserState was called with, users the store it read,
\* init its default object, wrote whether its last mutator has returned.
IdleTab ==
  [pc |-> "idle", op |-> "", user |-> "", state |-> InitialUserStateLiteral,
   users |-> NoUsers, init |-> InitialUserStateLiteral, wrote |-> FALSE]

\* The memory as tab t sees it: the shared item, its own default object.
TabMem(t) == [Mem EXCEPT !.init = tabs[t].init]

\* setUserState, store.users[userID] = state
assignUser(users, userID, state) ==
  [v \in DOMAIN users \cup {userID} |->
     IF v = userID THEN state ELSE users[v]]

\* a setUserState that reads the item again when it writes
tabWrite_Rereads(m, users, userID, state) ==
  setUserState(m, userID, state)

\* setUserState from its assignment on: the store read earlier, with the
\* user's state put in, is written as a whole.
tabWrite(m, users, userID, state) ==
  write(m, [hasUsers |-> TRUE, users |-> assignUser(users, userID, state)])

\* setCredentialID or setActiveID up to its call of setUserState:
\* getUserState reads the item, and the state it returned is changed in
\* place.
TabGetUserState(t, op, u, x) ==
  /\ tabs[t].pc = "idle"
  /\ ~getUserStateRaises(Mem)
  /\ LET m == TabMem(t)
         old == getUserState(m, u)
         state == IF op = "setCredentialID"
                  THEN [old EXCEPT !.webAuthnCredentials = Append(@, x)]
                  ELSE [old EXCEPT !.passcode.id = x]
     IN /\ op = "setCredentialID" => Len(old.webAuthnCredentials) < MaxCreds
        /\ tabs' = [tabs EXCEPT ![t] =
                      [pc |-> "got", op |-> op, user |-> u, state |-> state,
                       users |-> NoUsers, init |-> assign(m, u, state).init,
                       wrote |-> FALSE]]
  /\ last' = Observed(op, u, "getUserState", NoReply, "pending", x, 0)
  /\ UNCHANGED <<blob, initialUserState, now, storageWritable, flight, writes,
                 cookie>>

\* setUserState, const store = this.read()
TabRead(t) ==
  /\ tabs[t].pc = "got"
  /\ tabs' = [tabs EXCEPT ![t].pc = "read", ![t].users = read(Mem).users]
  /\ last' = Observed(tabs[t].op, tabs[t].user, "read", NoReply, "pending",
                      "", 0)
  /\ UNCHANGED <<blob, initialUserState, now, storageWritable, flight, writes,
                 cookie>>

\* setUserState, store.users[userID] = state; this.write(store)
TabWrite(t) ==
  /\ tabs[t].pc = "read"
  /\ writes < MaxOps
  /\ LET m == tabWrite(Mem, tabs[t].users, tabs[t].user, tabs[t].state)
     IN /\ blob' = m.blob
        /\ last' = Observed(tabs[t].op, tabs[t].user, "write", NoReply,
                            CallKind(m), "", 0)
  /\ writes' = writes + 1
  /\ tabs' = [tabs EXCEPT ![t].pc = "idle", ![t].wrote = TRUE]
  /\ UNCHANGED <<initialUserState, now, storageWritable, flight, cookie>>

\* ------------------------------------------------------------------------
\* The storage as the environment can change it
\* ------------------------------------------------------------------------
\* Something other than the SDK removes or overwrites the item.
Tamper(b) ==
  /\ b # blob
  /\ blob' = b
  /\ last' = Observed("tamper", "", "", NoReply, "", "", 0)
  /\ UNCHANGED <<initialUserState, now, storageWritable, flight, writes,
               cookie, tabs>>

\* localStorage.setItem starts or stops throwing (quota reached, storage
\* disabled).
StorageFault ==
  /\ storageWritable' = ~storageWritable
  /\ last' = Observed("fault", "", "", NoReply, "", "", 0)
  /\ UNCHANGED <<blob, initialUserState, now, flight, writes,
                 cookie, tabs>>

\* ------------------------------------------------------------------------
\* The specifications
\* ------------------------------------------------------------------------
Init ==
  /\ blob = BlobAbsent
  /\ initialUserState = InitialUserStateLiteral
  /\ now = 0
  /\ storageWritable = TRUE
  /\ flight = {}
  /\ writes = 0
  /\ last = Observed("", "", "", NoReply, "", "", 0)
  /\ cookie = ""
  /\ tabs = [t \in Tabs |-> IdleTab]

StoreNext ==
  \/ \E u \in Users, c \in CredentialIDs : SetCredentialID(u, c)
  \/ \E u \in Users, p \in PasscodeIDs : SetActiveID(u, p)
  \/ \E u \in Users : RemoveActive(u)
  \/ \E u \in Users, s \in Seconds : SetTTL(u, s)
  \/ \E u \in Users, s \in Seconds \cup {0} : SetResendAfter(u, s)
  \/ \E u \in Users, s \in Seconds : SetRetryAfter(u, s)

ReadNext ==
  \/ \E u \in Users, match \in CredentialLists : MatchCredentials(u, match)
  \/ \E u \in Users : GetTTL(u)
  \/ \E u \in Users : GetResendAfter(u)
  \/ \E u \in Users : GetRetryAfter(u)

ClientNext ==
  \/ \E u \in Users : PasscodeInitialize(u)
  \/ \E f \in flight, r \in PasscodeInitializeReplies :
       PasscodeInitializeReply(f, r)
  \/ \E u \in Users : PasscodeFinalize(u)
  \/ \E f \in flight, r \in PlainReplies : PasscodeFinalizeReply(f, r)
  \/ WebauthnRegister
  \/ \E f \in flight, r \in PlainReplies : WebauthnRegisterInitializeReply(f, r)
  \/ \E f \in flight, r \in {Created, Cancelled} : WebauthnRegisterCeremony(f, r)
  \/ \E f \in flight, r \in WebauthnFinalizeReplies :
       WebauthnRegisterFinalizeReply(f, r)

PasswordNext ==
  \/ \E u \in Users : PasswordLogin(u)
  \/ \E f \in flight, r \in PasswordLoginReplies : PasswordLoginReply(f, r)
  \/ \E u \in Users : PasswordUpdate(u)
  \/ \E f \in flight, r \in PasswordLoginReplies : PasswordUpdateReply(f, r)

WebauthnNext ==
  \/ \E u \in Users \cup {""} : WebauthnLogin(u)
  \/ \E f \in flight, r \in PlainReplies : WebauthnLoginInitializeReply(f, r)
  \/ \E f \in flight : WebauthnLoginUnobserved(f)
  \/ \E f \in flight, r \in {Created, Cancelled} : WebauthnLoginCeremony(f, r)
  \/ \E f \in flight, r \in WebauthnFinalizeReplies :
       WebauthnLoginFinalizeReply(f, r)
  \/ WebauthnRegister
  \/ \E f \in flight, r \in PlainReplies : WebauthnRegisterInitializeReply(f, r)
  \/ \E f \in flight, r \in {Created, Cancelled} : WebauthnRegisterCeremony(f, r)
  \/ \E f \in flight, r \in WebauthnFinalizeReplies :
       WebauthnRegisterFinalizeReply(f, r)
  \/ \E u \in Users, creds \in UserCredentials : WebauthnShouldRegister(u, creds)
  \/ \E f \in flight, r \in {Supported, Unsupported, SupportRejected} :
       WebauthnShouldRegisterReply(f, r)

UserNext ==
  \/ UserGetInfo
  \/ \E f \in flight, r \in UserReplies : UserGetInfoReply(f, r)
  \/ UserCreate
  \/ \E f \in flight, r \in UserReplies : UserCreateReply(f, r)
  \/ UserGetCurrent
  \/ \E f \in flight, r \in UserReplies : UserGetCurrentMeReply(f, r)
  \/ \E f \in flight, r \in UserReplies : UserGetCurrentUserReply(f, r)

\* The clients that keep nothing in the Store, with responses that may
\* carry an X-Auth-Token or a body that is not JSON.
TransportNext ==
  \/ UserGetInfo
  \/ \E f \in flight, r \in UserReplies, t \in Tokens \cup {""} :
       UserGetInfoReply(f, WithToken(r, t))
  \/ UserCreate
  \/ \E f \in flight, r \in UserReplies, t \in Tokens \cup {""} :
       UserCreateReply(f, WithToken(r, t))
  \/ UserGetCurrent
  \/ \E f \in flight, r \in UserReplies, t \in Tokens \cup {""} :
       UserGetCurrentMeReply(f, WithToken(r, t))
  \/ \E f \in flight, r \in UserReplies, t \in Tokens \cup {""} :
       UserGetCurrentUserReply(f, WithToken(r, t))
  \/ ConfigGet
  \/ \E f \in flight, r \in PlainReplies, t \in Tokens \cup {""} :
       ConfigGetReply(f, WithToken(r, t))
  \/ \E f \in flight, r \in Unparsable, t \in Tokens \cup {""} :
       ResponseThrows(f, WithToken(r, t))

\* Of a set of replies, one of each kind the three handlers tell apart:
\* a success, the statuses they single out, and one they do not.
Decisive(replies) ==
  {r \in replies :
     r.ev = "load" /\ r.status \in {200, 401, 404, 410, 429, 500}}

ConcurrentNext ==
  \/ \E u \in Users : ConcurrentPasscodeInitialize(u)
  \/ \E f \in flight, r \in Decisive(PasscodeInitializeReplies) :
       PasscodeInitializeReply(f, r)
  \/ \E u \in Users : ConcurrentPasscodeFinalize(u)
  \/ \E f \in flight, r \in Decisive(PlainReplies) :
       PasscodeFinalizeReply(f, r)
  \/ \E u \in Users : ConcurrentPasswordLogin(u)
  \/ \E f \in flight, r \in Decisive(PasswordLoginReplies) :
       PasswordLoginReply(f, r)

TabNext ==
  \/ \E t \in Tabs, u \in Users, c \in CredentialIDs :
       TabGetUserState(t, "setCredentialID", u, c)
  \/ \E t \in Tabs, u \in Users, p \in PasscodeIDs :
       TabGetUserState(t, "setActiveID", u, p)
  \/ \E t \in Tabs : TabRead(t)
  \/ \E t \in Tabs : TabWrite(t)

TamperNext == \E b \in {BlobAbsent, BlobGarbage, BlobNoUsers} : Tamper(b)

Next == ClientNext \/ Tick

NextStore == StoreNext \/ Tick

NextPassword == PasswordNext \/ Tick

NextWebauthn == WebauthnNext \/ Tick

NextUser == UserNext \/ Tick

NextStoreReads == StoreNext \/ ReadNext \/ Tick

NextTabs == TabNext

NextConcurrent == ConcurrentNext

NextTransport == TransportNext

NextTampered == ClientNext \/ Tick \/ TamperNext

NextUnwritable == ClientNext \/ Tick \/ StorageFault

Spec == Init /\ [][Next]_vars

SpecStore == Init /\ [][NextStore]_vars

SpecPassword == Init /\ [][NextPassword]_vars

SpecWebauthn == Init /\ [][NextWebauthn]_vars

SpecUser == Init /\ [][NextUser]_vars

SpecStoreReads == Init /\ [][NextStoreReads]_vars

SpecTransport == Init /\ [][NextTransport]_vars

\* The browser ends every request it was handed (load, error or timeout)
\* and the caller starts operations as long as it can.
SpecTransportLive == SpecTransport /\ WF_vars(NextTransport)

SpecConcurrent == Init /\ [][NextConcurrent]_vars

SpecTabs == Init /\ [][NextTabs]_vars

SpecTampered == Init /\ [][NextTampered]_vars

SpecUnwritable == Init /\ [][NextUnwritable]_vars

\* ------------------------------------------------------------------------
\* Properties
\* ------------------------------------------------------------------------
\* The step just taken handled a response to `step` of operation `op`.
Replied(l, op, step) ==
  l.op = op /\ l.step = step /\ l.reply.ev = "load"

\* C1: after PasscodeClient.finalize(u, code) receives a success response,
\* the operation resolves and, at that instant, u has no active passcode,
\* getTTL(u) <= 0 and getResendAfter(u) = 0.
C1_FinalizeSuccessClearsPasscode ==
  (Replied(last, "passcode.finalize", "finalize") /\ ok(last.reply)) =>
    /\ last.kind = "resolved"
    /\ getActiveID(Mem, last.user) = ""
    /\ PasscodeGetTTL(last.user) <= 0
    /\ PasscodeGetResendAfter(last.user) = 0

\* C2: a user ID without a record in the blob reads as the zero default
\* from every getter: no credential matches, no active passcode, and no
\* remaining seconds (the deadline 0 is never in the future).
C2_NoRecordReadsDefault ==
  \A u \in Users :
    (~getUserStateRaises(Mem) /\ ~exists(Mem, u)) =>
      /\ \A c \in CredentialIDs : matchCredentials(Mem, u, <<c>>) = <<>>
      /\ getActiveID(Mem, u) = ""
      /\ getTTL(Mem, u) <= 0
      /\ getResendAfter(Mem, u) <= 0
      /\ getRetryAfter(Mem, u) <= 0

\* C3: setActiveID(u, id) followed by removeActive(u) leaves u without an
\* active passcode ID and with getTTL(u) <= 0, and removeActive never clears
\* one of ID and TTL without the other.
C3_SetActiveThenRemoveClears ==
  [][ /\ ( /\ last.op = "setActiveID" /\ last.kind = "returned"
           /\ last'.op = "removeActive" /\ last'.user = last.user )
         => /\ getActiveID(Mem', last.user) = ""
            /\ getTTL(Mem', last.user) <= 0
      /\ last'.op = "removeActive"
         => ( getActiveID(Mem', last'.user) = ""
                <=> getUserState(Mem', last'.user).passcode.ttl = 0 )
    ]_vars

\* C4: whatever the blob holds that is not a store the SDK wrote (nothing,
\* undecodable bytes, decodable JSON without a user collection), every Store
\* read behaves as if no records exist and does not raise.
C4_UnusableBlobReadsAsEmpty ==
  blob.kind # "store" =>
    /\ ~getUserStateRaises(Mem)
    /\ \A u \in Users : getUserState(Mem, u) = initialUserState

ClientOps == {"passcode.initialize", "passcode.finalize", "webauthn.register"}

\* C5: a failing Store call inside a client operation is never what the
\* operation ends with: its caller sees the success or the error kind chosen
\* from the server response, never the Store's own exception.
C5_StoreFailureNotSurfaced ==
  last.op \in ClientOps => last.kind # StoreError

\* C6: WebauthnClient.register fails with WebAuthnRequestCancelledError only
\* when the platform ceremony is cancelled or fails; a failed challenge
\* request is reported as TechnicalError (network failure, status not ok) or
\* RequestTimeoutError (timeout).
C6_RegisterCancelledOnlyByCeremony ==
  last.op = "webauthn.register" =>
    /\ last.kind = "WebAuthnRequestCancelledError" => last.step = "ceremony"
    /\ (last.step = "initialize" /\ (fetchRejects(last.reply) \/ ~ok(last.reply)))
         => last.kind = fetchError(last.reply)

\* C7: after setCredentialID(u, c) the credential IDs known for u contain c,
\* and matchCredentials(u, candidates) returns at most one match for c, also
\* when c was appended twice.
C7_AppendedOnceMatchedOnce ==
  (last.op = "setCredentialID" /\ last.kind = "returned") =>
    /\ \E i \in DOMAIN getUserState(Mem, last.user).webAuthnCredentials :
         getUserState(Mem, last.user).webAuthnCredentials[i] = last.id
    /\ Len(matchCredentials(Mem, last.user, <<last.id>>)) <= 1

\* C8: when PasscodeClient.initialize(u) receives a success response with
\* Passcode{id, ttl}, it resolves with that passcode, and afterwards
\* getActiveID(u) = id and getTTL(u) is in [ttl - 1, ttl]; the resend
\* cooldown of u is what it was before.
C8_InitializeSuccessStoresPasscode ==
  [][ (Replied(last', "passcode.initialize", "initialize") /\ ok(last'.reply))
        => /\ last'.kind = "resolved"
           /\ last'.id = last'.reply.id /\ last'.secs = last'.reply.secs
           /\ getActiveID(Mem', last'.user) = last'.reply.id
           /\ getTTL(Mem', last'.user) \in
                (last'.reply.secs - 1) .. last'.reply.secs
           /\ getUserState(Mem', last'.user).passcode.resendAfter
                = getUserState(Mem, last'.user).passcode.resendAfter
    ]_vars

\* initialize has stored a passcode for a user who had a resend cooldown
\* running, at a clock other than 0.
C8_Witness ==
  /\ Replied(last, "passcode.initialize", "initialize") /\ ok(last.reply)
  /\ last.kind = "resolved"
  /\ getActiveID(Mem, last.user) = last.reply.id
  /\ getResendAfter(Mem, last.user) > 0
  /\ now > 0

\* C9: when PasscodeClient.finalize(u, code) receives HTTP 401 it fails with
\* InvalidPasscodeError and the Store is unchanged: the active passcode ID,
\* its TTL deadline and the resend cooldown of u are what they were, so the
\* same passcode can be submitted again.
C9_FinalizeInvalidKeepsPasscode ==
  [][ (Replied(last', "passcode.finalize", "finalize") /\ last'.reply.status = 401)
        => /\ last'.kind = "InvalidPasscodeError"
           /\ blob' = blob
           /\ initialUserState' = initialUserState
           /\ getUserState(Mem', last'.user).passcode
                = getUserState(Mem, last'.user).passcode
    ]_vars

\* finalize has failed with InvalidPasscodeError for a user whose passcode
\* is still active and not yet expired.
C9_Witness ==
  /\ Replied(last, "passcode.finalize", "finalize") /\ last.reply.status = 401
  /\ last.kind = "InvalidPasscodeError"
  /\ getActiveID(Mem, last.user) \in PasscodeIDs
  /\ getTTL(Mem, last.user) > 0
  /\ exists(Mem, last.user)

\* C10: when PasscodeClient.finalize(u, code) receives HTTP 404 or 410 it
\* fails with MaxNumOfPasscodeAttemptsReachedError and afterwards u has no
\* active passcode (ID absent, TTL cleared) while the resend cooldown of u is
\* unchanged; any other status that is neither a success nor 401 fails with
\* TechnicalError and leaves the Store unchanged.
C10_FinalizeDeadPasscodeCleared ==
  [][ Replied(last', "passcode.finalize", "finalize") =>
        /\ last'.reply.status \in {404, 410} =>
             /\ last'.kind = "MaxNumOfPasscodeAttemptsReachedError"
             /\ getActiveID(Mem', last'.user) = ""
             /\ getUserState(Mem', last'.user).passcode.ttl = 0
             /\ getUserState(Mem', last'.user).passcode.resendAfter
                  = getUserState(Mem, last'.user).passcode.resendAfter
        /\ (~ok(last'.reply) /\ last'.reply.status \notin {401, 404, 410}) =>
             /\ last'.kind = "TechnicalError"
             /\ blob' = blob
             /\ initialUserState' = initialUserState
    ]_vars

\* C11: when PasscodeClient.initialize(u) receives HTTP 429 whose
\* X-Retry-After header reads d, it fails with TooManyRequestsError carrying
\* d, getResendAfter(u) is then in [d - 1, d], and the active passcode ID and
\* TTL deadline of u are what they were; any other status that is no success
\* fails with TechnicalError and leaves the Store unchanged.
C11_InitializeRateLimited ==
  [][ Replied(last', "passcode.initialize", "initialize") =>
        /\ last'.reply.status = 429 =>
             /\ last'.kind = "TooManyRequestsError"
             /\ last'.secs = last'.reply.secs
             /\ getResendAfter(Mem', last'.user) \in
                  (last'.reply.secs - 1) .. last'.reply.secs
             /\ getUserState(Mem', last'.user).passcode.id
                  = getUserState(Mem, last'.user).passcode.id
             /\ getUserState(Mem', last'.user).passcode.ttl
                  = getUserState(Mem, last'.user).passcode.ttl
        /\ (~ok(last'.reply) /\ last'.reply.status # 429) =>
             /\ last'.kind = "TechnicalError"
             /\ blob' = blob
             /\ initialUserState' = initialUserState
    ]_vars

\* initialize has failed with TooManyRequestsError for a user who holds an
\* active, unexpired passcode, and the cooldown is running.
C11_Witness ==
  /\ Replied(last, "passcode.initialize", "initialize")
  /\ last.reply.status = 429 /\ last.reply.secs \in Seconds
  /\ last.kind = "TooManyRequestsError"
  /\ getResendAfter(Mem, last.user) > 0
  /\ getActiveID(Mem, last.user) \in PasscodeIDs
  /\ getTTL(Mem, last.user) > 0

\* C12: when PasswordClient.login(u, pw) receives HTTP 429 whose
\* X-Retry-After header reads d, it fails with TooManyRequestsError carrying
\* d, the Store holds the absolute deadline now + d for u, and
\* getRetryAfter(u) is then in [d - 1, d].
C12_PasswordLoginRateLimited ==
  [][ (Replied(last', "password.login", "login") /\ last'.reply.status = 429)
        => /\ last'.kind = "TooManyRequestsError"
           /\ last'.secs = last'.reply.secs
           /\ exists(Mem', last'.user)
           /\ getUserState(Mem', last'.user).password.retryAfter
                = now' + last'.reply.secs
           /\ getRetryAfter(Mem', last'.user) \in
                (last'.reply.secs - 1) .. last'.reply.secs
    ]_vars

\* login has failed with TooManyRequestsError at a clock other than 0 and
\* the cooldown of that user is running.
C12_Witness ==
  /\ Replied(last, "password.login", "login")
  /\ last.reply.status = 429 /\ last.reply.secs \in Seconds
  /\ last.kind = "TooManyRequestsError"
  /\ PasswordGetRetryAfter(last.user) = last.reply.secs
  /\ now > 0

\* C13: PasswordClient.login touches the Store on 429 only: a success
\* status resolves with no payload, 401 fails with InvalidPasswordError,
\* every other status that is neither a success nor 429 fails with
\* TechnicalError, and in these cases the Store (the retry deadline of u
\* included) is what it was.
C13_PasswordLoginClassifies ==
  [][ (Replied(last', "password.login", "login") /\ last'.reply.status # 429)
        => /\ ok(last'.reply) =>
                (last'.kind = "resolved" /\ last'.id = "" /\ last'.secs = 0)
           /\ last'.reply.status = 401 => last'.kind = "InvalidPasswordError"
           /\ (~ok(last'.reply) /\ last'.reply.status # 401)
                => last'.kind = "TechnicalError"
           /\ blob' = blob
           /\ initialUserState' = initialUserState
           /\ getUserState(Mem', last'.user).password.retryAfter
                = getUserState(Mem, last'.user).password.retryAfter
    ]_vars

\* login has failed with InvalidPasswordError for a user whose cooldown
\* from an earlier 429 is still running.
C13_Witness ==
  /\ Replied(last, "password.login", "login") /\ last.reply.status = 401
  /\ last.kind = "InvalidPasswordError"
  /\ exists(Mem, last.user)
  /\ PasswordGetRetryAfter(last.user) > 0

Knows(m, u, c) ==
  \E i \in DOMAIN getUserState(m, u).webAuthnCredentials :
    getUserState(m, u).webAuthnCredentials[i] = c

\* C15: when the finalize request of WebauthnClient.login or
\* WebauthnClient.register returns success with {user_id, credential_id},
\* the operation resolves and credential_id is then among the credential IDs
\* known for user_id, the user the server named and not the one the caller
\* passed; on every other step of the two operations, the failing ones
\* included, no credential ID is appended.
C15_FinalizedCredentialAppended ==
  [][ last'.op \in {"webauthn.login", "webauthn.register"} =>
        IF Replied(last', last'.op, "finalize") /\ ok(last'.reply)
        THEN /\ last'.kind = "resolved"
             /\ Knows(Mem', last'.reply.user, last'.reply.id)
             /\ exists(Mem', last'.reply.user)
             /\ read(Mem').users[last'.reply.user].webAuthnCredentials
                  = Append(getUserState(Mem, last'.reply.user).webAuthnCredentials,
                           last'.reply.id)
        ELSE /\ blob' = blob
             /\ initialUserState' = initialUserState
    ]_vars

\* login(u) has resolved on a response that names another user, who had a
\* record already; the credential is filed in that record.
C15_Witness ==
  /\ Replied(last, "webauthn.login", "finalize") /\ ok(last.reply)
  /\ last.kind = "resolved"
  /\ last.user \in Users /\ last.reply.user # last.user
  /\ exists(Mem, last.reply.user)
  /\ Len(read(Mem).users[last.reply.user].webAuthnCredentials) = 2
  /\ Knows(Mem, last.reply.user, last.reply.id)

\* C16: WebauthnClient.login fails with WebAuthnRequestCancelledError when
\* the platform ceremony is cancelled or fails, with
\* InvalidWebauthnCredentialError on HTTP 400 or 401 from
\* /webauthn/login/finalize, and with TechnicalError on every other status
\* of either round trip that is no success; its caller observes the kind of
\* the first failing step and nothing after it.
C16_LoginFailureKinds ==
  last.op = "webauthn.login" =>
    /\ (last.step = "ceremony" /\ last.reply = Cancelled)
         => last.kind = "WebAuthnRequestCancelledError"
    /\ (Replied(last, "webauthn.login", "finalize")
          /\ last.reply.status \in {400, 401})
         => last.kind = "InvalidWebauthnCredentialError"
    /\ (Replied(last, "webauthn.login", "finalize") /\ ~ok(last.reply)
          /\ last.reply.status \notin {400, 401})
         => last.kind = "TechnicalError"
    /\ (Replied(last, "webauthn.login", "initialize") /\ ~ok(last.reply))
         => last.kind = "TechnicalError"
    /\ last.kind \notin {"pending", "resolved", Unobserved}
         => \A f \in flight : f.op = "webauthn.login" => f.step = Unobserved
    /\ last.step = Unobserved => last.kind = Unobserved

\* login has failed on its first round trip, and the rest of its chain has
\* run without its caller observing anything more.
C16_Witness ==
  /\ last.op = "webauthn.login" /\ last.step = Unobserved
  /\ last.kind = Unobserved
  /\ flight = {}

\* C17: WebauthnClient.shouldRegister(user) resolves true if and only if a
\* platform authenticator is available and user.webauthn_credentials is
\* missing, is empty, or has no match among the credential IDs stored for
\* user.id; the Store is not modified.
C17_ShouldRegisterIff ==
  [][ last'.op = "webauthn.shouldRegister" =>
        /\ (last'.step = "support" /\ last'.reply \in {Supported, Unsupported})
             => /\ last'.kind = "resolved"
                /\ last'.flag <=>
                     /\ last'.reply = Supported
                     /\ \/ ~last'.creds.given
                        \/ last'.creds.ids = <<>>
                        \/ matchCredentials(Mem, last'.user, last'.creds.ids) = <<>>
        /\ blob' = blob
        /\ initialUserState' = initialUserState
    ]_vars

\* shouldRegister has resolved false on a platform with an authenticator,
\* for a user with server credentials c1 and c2 of which the Store knows c1.
C17_Witness ==
  /\ last.op = "webauthn.shouldRegister" /\ last.step = "support"
  /\ last.reply = Supported
  /\ last.creds = Credentials(TRUE, <<"c1", "c2">>)
  /\ exists(Mem, last.user)
  /\ read(Mem).users[last.user].webAuthnCredentials = <<"c1">>
  /\ last.kind = "resolved" /\ ~last.flag

\* C18: UserClient.getCurrent takes two steps: GET /users/{id} is issued
\* only after GET /me has returned success, with the id of that response;
\* HTTP 400, 401 or 404 at either step fails with UnauthorizedError, every
\* other status that is no success with TechnicalError, and the operation
\* resolves, with the user of the second response, only when both steps
\* have succeeded.
C18_GetCurrentTwoSteps ==
  [][ last'.op = "user.getCurrent" =>
        /\ last'.step = "call" =>
             flight' = {InFlight("user.getCurrent", "", "me", "")}
        /\ Replied(last', "user.getCurrent", "me") =>
             /\ ok(last'.reply) =>
                  /\ last'.kind = "pending"
                  /\ flight' = {InFlight("user.getCurrent", last'.reply.user,
                                          "users", "")}
             /\ ~ok(last'.reply) => flight' = {}
        /\ last'.step = "users" =>
             /\ flight = {InFlight("user.getCurrent", last'.user, "users", "")}
             /\ last.op = "tick" \/ (Replied(last, "user.getCurrent", "me")
                                       /\ ok(last.reply)
                                       /\ last.reply.user = last'.user)
        /\ (last'.reply.ev = "load" /\ last'.reply.status \in {400, 401, 404})
             => last'.kind = "UnauthorizedError"
        /\ (last'.reply.ev = "load" /\ ~ok(last'.reply)
              /\ last'.reply.status \notin {400, 401, 404})
             => last'.kind = "TechnicalError"
        /\ last'.kind = "resolved" <=>
             (Replied(last', "user.getCurrent", "users") /\ ok(last'.reply))
        /\ last'.kind = "resolved" => last'.id = last'.reply.user
    ]_vars

\* getCurrent has resolved with the user of the second response, asked for
\* under the id the first response named.
C18_Witness ==
  /\ Replied(last, "user.getCurrent", "users") /\ ok(last.reply)
  /\ last.kind = "resolved"
  /\ last.user \in Users /\ last.id = last.user
  /\ flight = {}

\* C19: UserClient.getInfo fails with NotFoundError on HTTP 404 and
\* UserClient.create with ConflictError on HTTP 409; for each of the two
\* every other status that is no success fails with TechnicalError, and a
\* success status resolves with the decoded body.
C19_GetInfoCreateKinds ==
  \A op \in {"user.getInfo", "user.create"} :
    (last.op = op /\ last.reply.ev = "load") =>
      LET own == IF op = "user.getInfo" THEN 404 ELSE 409
          kind == IF op = "user.getInfo" THEN "NotFoundError"
                  ELSE "ConflictError"
      IN /\ last.reply.status = own => last.kind = kind
         /\ (~ok(last.reply) /\ last.reply.status # own)
              => last.kind = "TechnicalError"
         /\ ok(last.reply)
              => (last.kind = "resolved" /\ last.id = last.reply.user)

\* create has failed with TechnicalError on the status getInfo singles out.
C19_Witness ==
  /\ last.op = "user.create" /\ last.reply.ev = "load"
  /\ last.reply.status = 404
  /\ last.kind = "TechnicalError"

DeadlineSetters == {"setTTL", "setResendAfter", "setRetryAfter"}

\* The deadline field a setter writes, as the Store holds it for u.
Deadline(m, setter, u) ==
  CASE setter = "setTTL" -> getUserState(m, u).passcode.ttl
    [] setter = "setResendAfter" -> getUserState(m, u).passcode.resendAfter
    [] setter = "setRetryAfter" -> getUserState(m, u).password.retryAfter

\* What the getter matching a setter returns for u.
Remaining(m, setter, u) ==
  CASE setter = "setTTL" -> getTTL(m, u)
    [] setter = "setResendAfter" -> getResendAfter(m, u)
    [] setter = "setRetryAfter" -> getRetryAfter(m, u)

Ids(l) == {l[i] : i \in DOMAIN l}

\* C21: matchCredentials(u, candidates) returns the candidates whose ID is
\* among the credential IDs stored for u: every returned ID occurs in the
\* candidates and in the stored IDs, every candidate ID that is stored is
\* returned, and the result is empty when either side is empty.
C21_MatchIsIntersection ==
  (last.op = "matchCredentials" /\ last.kind = "returned") =>
    LET stored == Ids(getUserState(Mem, last.user).webAuthnCredentials)
        candidates == Ids(last.creds.ids)
    IN /\ Ids(last.list) = stored \cap candidates
       /\ (stored = {} \/ candidates = {}) => last.list = <<>>

\* matchCredentials has returned one of two candidates, for a user whose
\* record holds that ID and another one.
C21_Witness ==
  /\ last.op = "matchCredentials" /\ last.kind = "returned"
  /\ exists(Mem, last.user)
  /\ read(Mem).users[last.user].webAuthnCredentials = <<"c2", "c1">>
  /\ last.creds.ids = <<"c1", "c1">>
  /\ last.list = <<"c1">>

Getters == {"getTTL", "getResendAfter", "getRetryAfter"}

\* The setter whose deadline a getter reads.
SetterOf(getter) ==
  CASE getter = "getTTL" -> "setTTL"
    [] getter = "getResendAfter" -> "setResendAfter"
    [] getter = "getRetryAfter" -> "setRetryAfter"

\* C29: PasscodeClient.getTTL, PasscodeClient.getResendAfter and
\* PasswordClient.getRetryAfter are pure reads: a call returns the remaining
\* seconds of the stored deadline, starts no request, and leaves the blob
\* (and the default object) as it was, also for a user without a record.
C29_GettersArePureReads ==
  [][ last'.op \in Getters =>
        /\ last'.kind = "returned"
        /\ last'.secs = Deadline(Mem, SetterOf(last'.op), last'.user) - now
        /\ blob' = blob
        /\ initialUserState' = initialUserState
        /\ flight' = flight
    ]_vars

\* getRetryAfter has been read for a user without a record while the blob
\* holds the record of another user.
C29_Witness ==
  /\ last.op = "getRetryAfter" /\ last.kind = "returned"
  /\ blob.kind = "store"
  /\ ~exists(Mem, last.user)
  /\ \E u \in Users : exists(Mem, u)

\* C27: in one execution context with an intact blob, the credential IDs
\* visible for a user only grow: whatever Store operation runs, for whatever
\* user and through whichever State class, every credential ID that was
\* visible for u before is visible for u after, at its place in the list.
C27_CredentialsOnlyGrow ==
  [][ \A u \in Users :
        LET before == getUserState(Mem, u).webAuthnCredentials
            after == getUserState(Mem', u).webAuthnCredentials
        IN /\ Len(before) <= Len(after)
           /\ SubSeq(after, 1, Len(before)) = before
           /\ \A c \in CredentialIDs : Knows(Mem, u, c) => Knows(Mem', u, c)
    ]_vars

\* A passcode mutator has run for a user whose record holds a credential
\* ID, and the ID is still there.
C27_Witness ==
  /\ last.op \in {"setActiveID", "removeActive", "setTTL", "setResendAfter"}
  /\ last.kind = "returned"
  /\ exists(Mem, last.user)
  /\ Len(read(Mem).users[last.user].webAuthnCredentials) = 1

\* The deadline field a setter writes, in the record the blob holds for u.
Persisted(m, setter, u) ==
  CASE setter = "setTTL" -> read(m).users[u].passcode.ttl
    [] setter = "setResendAfter" -> read(m).users[u].passcode.resendAfter
    [] setter = "setRetryAfter" -> read(m).users[u].password.retryAfter

\* The credential IDs of the record of u are kept, in place.
CredentialsKept(m, n, u) ==
  /\ Len(read(m).users[u].webAuthnCredentials)
       <= Len(read(n).users[u].webAuthnCredentials)
  /\ SubSeq(read(n).users[u].webAuthnCredentials, 1,
            Len(read(m).users[u].webAuthnCredentials))
       = read(m).users[u].webAuthnCredentials

\* C26 as stated: every persisted field of a record is a deadline that only
\* advances or a set that is only appended to: passcode.ttl,
\* passcode.resendAfter and password.retryAfter never decrease, and no
\* persisted value is removed or overwritten with an earlier one.
C26_DeadlinesNeverDecrease ==
  [][ \A u \in Users : exists(Mem, u) =>
        /\ exists(Mem', u)
        /\ CredentialsKept(Mem, Mem', u)
        /\ \A setter \in DeadlineSetters :
             Persisted(Mem', setter, u) >= Persisted(Mem, setter, u)
    ]_vars

\* C26, amended: a record is never removed and its credential IDs are only
\* appended to, but its deadlines are overwritten, not advanced: a setter
\* stores clock + seconds whatever the field held, removeActive stores the
\* ttl of the default object, and in no other step does a persisted
\* deadline change.
C26_DeadlinesAreOverwritten ==
  [][ \A u \in Users : exists(Mem, u) =>
        /\ exists(Mem', u)
        /\ CredentialsKept(Mem, Mem', u)
        /\ \A setter \in DeadlineSetters :
             Persisted(Mem', setter, u) # Persisted(Mem, setter, u) =>
               /\ last'.user = u
               /\ \/ /\ last'.op = setter
                     /\ Persisted(Mem', setter, u) = now + last'.secs
                  \/ /\ setter = "setTTL" /\ last'.op = "removeActive"
                     /\ Persisted(Mem', setter, u)
                          = initialUserState.passcode.ttl
    ]_vars

\* setResendAfter(u, 0) has stored the present second over a deadline that
\* lay ahead, the one u stored first (the default object still holds it).
C26_Witness ==
  /\ last.op = "setResendAfter" /\ last.kind = "returned" /\ last.secs = 0
  /\ exists(Mem, last.user)
  /\ Persisted(Mem, "setResendAfter", last.user) = now
  /\ initialUserState.passcode.resendAfter > now

WebauthnOps == {"webauthn.login", "webauthn.register"}

\* C25: when the platform ceremony of WebauthnClient.login or
\* WebauthnClient.register is aborted or fails, the operation fails with
\* WebAuthnRequestCancelledError, no finalize request is sent, and the Store
\* is what it was when the operation started: no step of the operation up
\* to and including the ceremony has written to it.
C25_CeremonyAbortLeavesStore ==
  [][ last'.op \in WebauthnOps =>
        /\ (last'.step = "ceremony" /\ last'.reply = Cancelled) =>
             /\ last'.kind = "WebAuthnRequestCancelledError"
             /\ \A f \in flight' : f.op # last'.op
        /\ last'.step \in {"call", "initialize", "ceremony"} =>
             /\ blob' = blob
             /\ initialUserState' = initialUserState
             /\ writes' = writes
        /\ \A f \in flight' :
             (f.op = last'.op /\ f.step = "finalize") =>
               (last'.step = "ceremony" /\ last'.reply = Created)
    ]_vars

\* The ceremony of login has been aborted while the Store holds a record;
\* the operation has failed and nothing of it is in flight.
C25_Witness ==
  /\ last.op = "webauthn.login" /\ last.step = "ceremony"
  /\ last.reply = Cancelled
  /\ last.kind = "WebAuthnRequestCancelledError"
  /\ flight = {}
  /\ \E u \in Users : exists(Mem, u)

\* C24: a round trip that times out fails its operation with
\* RequestTimeoutError, whichever operation and whichever of its round trips
\* it is, and the step that delivers the timeout leaves the Store and the
\* shared default as they were.
C24_TimeoutFailsWithTimeout ==
  [][ (last' # last /\ last'.reply.ev = "timeout") =>
        /\ last'.kind = "RequestTimeoutError"
        /\ blob' = blob
        /\ initialUserState' = initialUserState
    ]_vars

\* The eleven error classes the clients import and throw.
ErrorKinds ==
  {"TechnicalError", "RequestTimeoutError", "UnauthorizedError",
   "NotFoundError", "ConflictError", "InvalidPasswordError",
   "InvalidPasscodeError", "MaxNumOfPasscodeAttemptsReachedError",
   "InvalidWebauthnCredentialError", "WebAuthnRequestCancelledError",
   "TooManyRequestsError"}

\* C28: whatever a client operation has settled with is success or one of
\* the eleven error classes, never an exception of another kind, and a
\* response with a status no operation expects (500) is reported as
\* TechnicalError.
C28_SettlesWithinTaxonomy ==
  last.op \in ClientOps =>
    /\ last.kind \in ErrorKinds \cup {"pending", "resolved"}
    /\ (last.reply.ev = "load" /\ last.reply.status = 500)
         => last.kind = "TechnicalError"

\* C30: two tabs each read the whole blob, change it and write the whole
\* blob back, with nothing between them: a tab's write stores exactly the
\* store that tab read with its own user's state put in, so what another
\* tab wrote in between is kept only if this tab had read it. The write is
\* never merged with the item as it is now, never refused, never repeated,
\* and only such a write changes the item.
C30_LastWriterWins ==
  [][ /\ \A t \in Tabs :
           (tabs[t].pc = "read" /\ tabs'[t].pc = "idle") =>
             /\ blob'.kind = "store"
             /\ blob'.users
                  = assignUser(tabs[t].users, tabs[t].user, tabs[t].state)
             /\ last'.kind = "returned"
             /\ tabs'[t].wrote
      /\ blob' # blob =>
           \E t \in Tabs : tabs[t].pc = "read" /\ tabs'[t].pc = "idle"
    ]_vars

\* Both tabs have completed a mutator, each for another user, and the
\* record the first of them wrote is no longer in the item.
C30_Witness ==
  /\ blob.kind = "store"
  /\ \A t \in Tabs : tabs[t].wrote /\ tabs[t].pc = "idle"
  /\ \E t \in Tabs : tabs[t].user \notin DOMAIN blob.users

\* C22: a response that carries X-Auth-Token puts that token into the
\* cookie in the step that handles the response; the cookie changes in no
\* other way; and every request sent in or after that step carries the
\* cookie's token as its bearer, so the second request of
\* UserClient.getCurrent carries the token the /me response brought.
C22_BearerIsLatestToken ==
  [][ /\ (last' # last /\ last'.reply.ev = "load" /\ last'.reply.token # "")
           => cookie' = last'.reply.token
      /\ cookie' # cookie => cookie' = last'.reply.token
      /\ \A f \in flight' \ flight :
           f.step \in RequestSteps => f.bearer = cookie'
    ]_vars

\* The /me response of getCurrent brought the token t2, which is now the
\* cookie, and GET /users/{id} is in flight carrying t2.
C22_Witness ==
  /\ last.op = "user.getCurrent" /\ last.step = "me"
  /\ last.reply.token = "t2"
  /\ cookie = "t2"
  /\ \E f \in flight : f.step = "users" /\ f.bearer = "t2"

\* C23: every request of the transport settles: whenever an operation
\* waits, it later waits no more.
C23_EveryRequestSettles ==
  (flight # {}) ~> (flight = {})

Mutators ==
  {"setCredentialID", "setActiveID", "removeActive", "setTTL",
   "setResendAfter", "setRetryAfter"}

\* A user state with the fields a mutator is named for blanked out.
Framed(op, state) ==
  CASE op = "setCredentialID" -> [state EXCEPT !.webAuthnCredentials = <<>>]
    [] op = "setActiveID" -> [state EXCEPT !.passcode.id = ""]
    [] op = "removeActive" ->
         [state EXCEPT !.passcode.id = "", !.passcode.ttl = 0]
    [] op = "setTTL" -> [state EXCEPT !.passcode.ttl = 0]
    [] op = "setResendAfter" -> [state EXCEPT !.passcode.resendAfter = 0]
    [] op = "setRetryAfter" -> [state EXCEPT !.password.retryAfter = 0]

\* C32: a Store mutator called for user u changes only the fields it is
\* named for: afterwards u has a record that equals the state u read before
\* in every other field, every other record of the blob is the same as
\* before, and no record has appeared or gone apart from u's.
C32_MutatorChangesOnlyItsFields ==
  [][ (last'.op \in Mutators /\ last'.kind = "returned") =>
        /\ exists(Mem', last'.user)
        /\ Framed(last'.op, read(Mem').users[last'.user])
             = Framed(last'.op, getUserState(Mem, last'.user))
        /\ DOMAIN read(Mem').users = DOMAIN read(Mem).users \cup {last'.user}
        /\ \A v \in DOMAIN read(Mem).users \ {last'.user} :
             read(Mem').users[v] = read(Mem).users[v]
    ]_vars

\* setTTL has just returned for a user while another user has a record
\* holding a credential ID.
C32_Witness ==
  /\ last.op = "setTTL" /\ last.kind = "returned"
  /\ read(Mem).users[last.user].passcode.ttl = now + last.secs
  /\ \E v \in DOMAIN read(Mem).users \ {last.user} :
       Len(read(Mem).users[v].webAuthnCredentials) > 0

\* C33: what the Store returns for user u depends only on the calls made
\* for u: a mutator called for another user leaves getActiveID(u),
\* getTTL(u), getResendAfter(u), getRetryAfter(u) and
\* matchCredentials(u, candidates) as they were.
C33_OtherUsersUnaffected ==
  [][ (last'.op \in Mutators /\ now' = now) =>
        \A u \in Users \ {last'.user} :
          /\ getActiveID(Mem', u) = getActiveID(Mem, u)
          /\ getTTL(Mem', u) = getTTL(Mem, u)
          /\ getResendAfter(Mem', u) = getResendAfter(Mem, u)
          /\ getRetryAfter(Mem', u) = getRetryAfter(Mem, u)
          /\ \A match \in CredentialLists :
               matchCredentials(Mem', u, match) = matchCredentials(Mem, u, match)
    ]_vars

\* The step at which an operation receives the response to its last round
\* trip.
TerminalStep(op) ==
  CASE op = "passcode.initialize" -> "initialize"
    [] op = "password.login" -> "login"
    [] op = "password.update" -> "update"
    [] OTHER -> "finalize"

\* C31 as stated: a step of a client operation that calls a Store mutator
\* is the one that receives the response to the operation's last round
\* trip, and that response is a success.
C31_WritesOnlyAfterSuccess ==
  [][ (writes' # writes \/ blob' # blob
         \/ initialUserState' # initialUserState) =>
        /\ last'.step = TerminalStep(last'.op)
        /\ last'.reply.ev = "load"
        /\ ok(last'.reply)
    ]_vars

\* C31: a step of a client operation that calls a Store mutator is the one
\* that receives the response to the operation's last round trip, and that
\* response is a success, a 429 (the cooldown is recorded), or a 404 or 410
\* to passcode finalize (the active passcode is removed); the call, the
\* responses to earlier round trips and the platform ceremony write nothing.
C31_WritesOnlyOnTerminalResponse ==
  [][ (writes' # writes \/ blob' # blob
         \/ initialUserState' # initialUserState) =>
        /\ last'.step = TerminalStep(last'.op)
        /\ last'.reply.ev = "load"
        /\ \/ ok(last'.reply)
           \/ /\ last'.reply.status = 429
              /\ last'.op \in {"passcode.initialize", "password.login"}
           \/ /\ last'.reply.status \in {404, 410}
              /\ last'.op = "passcode.finalize"
    ]_vars

\* A 429 to passcode initialize has just been handled and its cooldown is
\* in the record of the user.
C31_Witness ==
  /\ Replied(last, "passcode.initialize", "initialize")
  /\ last.reply.status = 429 /\ last.reply.secs > 0
  /\ writes > 0
  /\ exists(Mem, last.user)
  /\ read(Mem).users[last.user].passcode.resendAfter = now + last.reply.secs

\* C34: WebauthnClient.login stops at the first failure: once the response
\* to /webauthn/login/initialize has failed the operation, no later step of
\* its chain is waiting to run, and getWebauthnCredential is never called
\* without a challenge.
C34_LoginStopsAtFirstFailure ==
  last.op = "webauthn.login" =>
    /\ (last.step = "initialize" /\ last.kind # "pending")
         => \A f \in flight : f.op # "webauthn.login"
    /\ last.step # Unobserved

\* C35: the response to PasscodeClient.finalize removes the active passcode
\* only if it is still the one finalize submitted: when the active passcode
\* ID of the user is no longer the submitted one (an initialize has
\* completed meanwhile), a 200, 404 or 410 response leaves the active
\* passcode ID and its TTL as they are.
C35_FinalizeRemovesOnlyItsOwn ==
  [][ \A f \in flight \ flight' :
        ( /\ f.op = "passcode.finalize"
          /\ last'.op = f.op /\ last'.user = f.user
          /\ last'.reply.ev = "load"
          /\ (ok(last'.reply) \/ last'.reply.status \in {404, 410})
          /\ f.pid # getActiveID(Mem, f.user) )
        => /\ getActiveID(Mem', f.user) = getActiveID(Mem, f.user)
           /\ getUserState(Mem', f.user).passcode.ttl
                = getUserState(Mem, f.user).passcode.ttl
    ]_vars

\* A user state with the fields blanked out that the response handler of
\* an operation may write.
FramedFor(op, state) ==
  IF op = "password.login" THEN [state EXCEPT !.password.retryAfter = 0]
  ELSE [state EXCEPT !.passcode = [id |-> "", ttl |-> 0, resendAfter |-> 0]]

\* C36: with several operations of one context in flight, for the same or
\* for different users, no Store update is lost: whenever a response is
\* handled, every other user's record and every field of the user's own
\* record that the handler does not set are kept as earlier handlers left
\* them, and what the handler sets is in the blob when it ends.
C36_NoUpdateLost ==
  [][ (last'.op \in {"passcode.initialize", "passcode.finalize",
                      "password.login"} /\ last'.step # "call") =>
        /\ \A v \in DOMAIN read(Mem).users :
             /\ v \in DOMAIN read(Mem').users
             /\ IF v = last'.user
                THEN FramedFor(last'.op, read(Mem').users[v])
                       = FramedFor(last'.op, read(Mem).users[v])
                ELSE read(Mem').users[v] = read(Mem).users[v]
        /\ (last'.op = "passcode.initialize" /\ last'.kind = "resolved") =>
             /\ read(Mem').users[last'.user].passcode.id = last'.reply.id
             /\ read(Mem').users[last'.user].passcode.ttl
                  = now + last'.reply.secs
        /\ (last'.op = "passcode.finalize" /\ last'.kind = "resolved") =>
             read(Mem').users[last'.user].passcode.resendAfter = now
        /\ last'.kind = "TooManyRequestsError" =>
             IF last'.op = "password.login"
             THEN read(Mem').users[last'.user].password.retryAfter
                    = now + last'.reply.secs
             ELSE read(Mem').users[last'.user].passcode.resendAfter
                    = now + last'.reply.secs
    ]_vars

\* finalize(u) was called before a passcode was active and still waits;
\* meanwhile initialize(u) has stored a passcode and a 429 to
\* password login has stored a cooldown next to it.
C36_Witness ==
  /\ last.op = "password.login" /\ last.kind = "TooManyRequestsError"
  /\ last.reply.secs > 0
  /\ exists(Mem, last.user)
  /\ read(Mem).users[last.user].passcode.id # ""
  /\ read(Mem).users[last.user].password.retryAfter = now + last.reply.secs
  /\ \E f \in flight :
       f.op = "passcode.finalize" /\ f.user = last.user /\ f.pid = ""

====
